---- MODULE Spec2Model ----
(***************************************************************************)
(* Model of src/main.cpp: the parallel pixel filler generate_pixels, the   *)
(* colour kernels (gradient, mandelbrot, julia) and the SDL life cycle of  *)
(* main.                                                                   *)
(*                                                                         *)
(* Doubles are modelled exactly: a normalised coordinate j/width is kept   *)
(* as the pair (j, width), and DenormalizeInt of it is the truncated       *)
(* quotient (j*255) \div width, which is what the double computation       *)
(* static_cast<uint8_t>((double(j)/double(width)) * 255.0) yields for      *)
(* every width <= 8 (and likewise i/200 for every i <= 1000).              *)
(***************************************************************************)
EXTENDS Integers, Sequences, FiniteSets, TLC

(***************************************************************************)
(* Bounds of the model (the program uses 2350 x 1920).                     *)
(***************************************************************************)
MaxWidth == 2
MaxHeight == 3
MaxPad == 1
MaxThreads == 4
MaxManyThreads == 7
MaxCoord == 2

(***************************************************************************)
(* Program constants.                                                      *)
(***************************************************************************)
channels == 4
num_threads == 3
UINT8_MAX == 255
MaxIterations == 1000
ScaleIterations == 200

VARIABLES
  ndebug,        \* TRUE when assert() is compiled out (NDEBUG)
  pc,            \* position of main / of the caller of generate_pixels
  sdl_up,        \* SDL initialised (SDL_Init done, SDL_Quit not yet called)
  quit_calls,    \* number of SDL_Quit calls so far
  window, renderer, texture,   \* the unique_ptr owns a live SDL object
  first_frame,   \* TRUE until the frame rendered before the loop is shown
  quit,          \* the loop variable quit
  exit_status,   \* -1 while running, else the status returned by main
  width, height, \* image_width / image_height, passed as width / height
  pitch,         \* row stride in bytes
  buffer_null,   \* pixels == nullptr
  nthreads,      \* num_threads
  throwAt,       \* the pixel <<row, column>> where f throws, or NoThrow
  fill_pc,       \* position of generate_pixels
  thread,        \* dispatch loop counter
  waited,        \* number of futures already waited on
  workers,       \* per future: status and the loop position of its task
  buffer,        \* the locked pixel bytes, offsets 0 .. height*pitch - 1
  buffer0,       \* the bytes as they were when generate_pixels was called
  writers,       \* per offset: the workers that stored to it in this call
  wild,          \* a store outside the buffer has happened in this call
  k_fn, k_pc, k_v, k_c, k_i, k_result   \* one run of a colour kernel

mainVars == <<ndebug, pc, sdl_up, quit_calls, window, renderer, texture,
              first_frame, quit, exit_status>>
geomVars == <<width, height, pitch, buffer_null, nthreads, throwAt>>
fillVars == <<fill_pc, thread, waited, workers, buffer, buffer0, writers,
              wild>>
kernelVars == <<k_fn, k_pc, k_v, k_c, k_i, k_result>>
vars == <<mainVars, geomVars, fillVars, kernelVars>>

NoThrow == <<-1, -1>>

----------------------------------------------------------------------------
(***************************************************************************)
(* Colour and the conversions.                                             *)
(***************************************************************************)

\* DenormalizeInt<uint8_t>(num/den): float_value * 255.0 truncated.
DenormalizeInt(num, den) == (num * UINT8_MAX) \div den

\* Colour(double r, double g, double b), each given as a ratio <<num, den>>.
Colour(r, g, b) ==
  [red   |-> DenormalizeInt(r[1], r[2]),
   green |-> DenormalizeInt(g[1], g[2]),
   blue  |-> DenormalizeInt(b[1], b[2])]

\* gradient(x, y) with x = j/w and y = i/h.
gradient(x, y) == Colour(x, y, <<0, 1>>)

----------------------------------------------------------------------------
(***************************************************************************)
(* generate_pixels.                                                        *)
(***************************************************************************)

\* variant: the start rounded up instead of down
I_startCeil(k, h, n) == (k * h + n - 1) \div n

\* variant: the start as a multiple of the rounded band height
I_startChunk(k, h, n) == k * (h \div n)

\* thread * height / num_threads
I_start(k, h, n) == (k * h) \div n

\* variant: the end as the start plus the rounded band height
I_endChunk(k, h, n) == (k * h) \div n + h \div n

\* (thread + 1) * height / num_threads
I_end(k, h, n) == ((k + 1) * h) \div n

\* variant: rows advance by the packed row size instead of the pitch
AddressPacked(i, j) == i * width * channels + j * channels

\* address - buffer for pixel (i, j)
Address(i, j) == i * pitch + j * channels

\* variant: red and blue exchanged
PixelBytesSwapped(c) == <<255, c.red, c.green, c.blue>>

\* the four stores address[0..3] of one pixel
PixelBytes(c) == <<255, c.blue, c.green, c.red>>

\* f(x, y) for the pixel (i, j): x = j/width, y = i/height.  f is the
\* gradient kernel; main passes animate_julia, whose constant
\* 0.7885 * exp(i t) has no exact representation.
F(i, j) == gradient(<<j, width>>, <<i, height>>)

\* the inner loop test j < width
MoreColumns(j) == j < width

BufferSize == IF buffer_null THEN 0 ELSE height * pitch

\* unspecified content of a freshly locked texture
Garbage(o) == (o * 37 + 11) % 256

FreshBuffer == [o \in 0..(BufferSize - 1) |-> Garbage(o)]

PixelOffsets(i, j) == {Address(i, j) + b : b \in 0..(channels - 1)}

\* the stores of pixel (i, j) stay inside the buffer
InBounds(i, j) == PixelOffsets(i, j) \subseteq DOMAIN buffer

\* buf after the four stores of pixel (i, j)
WritePixel(buf, i, j) ==
  [o \in DOMAIN buf |->
     IF o \in PixelOffsets(i, j)
       THEN PixelBytes(F(i, j))[o - Address(i, j) + 1]
       ELSE buf[o]]

NoWorker == [status |-> "none", i_start |-> 0, i_end |-> 0, i |-> 0, j |-> 0]

Threads == 0..(nthreads - 1)

\* variant: the wait does not block
FutureReadyNoBlock(k) == TRUE

\* std::future::wait returns: the task has finished or has thrown
FutureReady(k) == workers[k].status \in {"ready", "exception"}

\* entry of generate_pixels: std::vector<std::future<void>> futures(num_threads)
EnterFill ==
  /\ fill_pc' = "dispatch"
  /\ thread' = 0
  /\ waited' = 0
  /\ workers' = [k \in Threads |-> NoWorker]
  /\ buffer' = FreshBuffer
  /\ buffer0' = FreshBuffer
  /\ writers' = [o \in 0..(BufferSize - 1) |-> {}]
  /\ wild' = FALSE

\* futures[thread] = std::async(std::launch::async, loops, start, end)
Dispatch ==
  /\ fill_pc = "dispatch"
  /\ thread < nthreads
  /\ workers' = [workers EXCEPT ![thread] =
                   [status |-> "running",
                    i_start |-> I_start(thread, height, nthreads),
                    i_end |-> I_end(thread, height, nthreads),
                    i |-> I_start(thread, height, nthreads),
                    j |-> 0]]
  /\ thread' = thread + 1
  /\ fill_pc' = IF thread + 1 < nthreads THEN "dispatch" ELSE "wait"
  /\ UNCHANGED <<waited, buffer, buffer0, writers, wild>>
  /\ UNCHANGED <<mainVars, geomVars, kernelVars>>

Running(k) == k \in DOMAIN workers /\ workers[k].status = "running"

\* one iteration of the inner loop of task k, all stores inside the buffer
WorkerPixel(k) ==
  /\ Running(k)
  /\ workers[k].i < workers[k].i_end
  /\ MoreColumns(workers[k].j)
  /\ <<workers[k].i, workers[k].j>> # throwAt
  /\ InBounds(workers[k].i, workers[k].j)
  /\ LET i == workers[k].i
         j == workers[k].j
         raced == \E o \in PixelOffsets(i, j) : writers[o] \ {k} # {}
     IN /\ \/ buffer' = WritePixel(buffer, i, j)
           \* a byte also stored by another task: a data race, the stores
           \* of this task may be lost
           \/ raced /\ buffer' = buffer
        /\ writers' = [o \in DOMAIN writers |->
                         IF o \in PixelOffsets(i, j)
                           THEN writers[o] \cup {k} ELSE writers[o]]
        /\ workers' = [workers EXCEPT ![k].j = j + 1]
  /\ UNCHANGED <<fill_pc, thread, waited, buffer0, wild>>
  /\ UNCHANGED <<mainVars, geomVars, kernelVars>>

\* a store through a null pointer or past the end of the buffer: undefined
\* behaviour, the process dies or the store is lost
WorkerWildStore(k) ==
  /\ Running(k)
  /\ workers[k].i < workers[k].i_end
  /\ MoreColumns(workers[k].j)
  /\ <<workers[k].i, workers[k].j>> # throwAt
  /\ ~InBounds(workers[k].i, workers[k].j)
  /\ \/ /\ pc' = "crashed"
        /\ workers' = [q \in DOMAIN workers |->
                         [workers[q] EXCEPT !.status =
                            IF @ = "running" THEN "killed" ELSE @]]
        /\ fill_pc' = "crashed"
     \/ /\ workers' = [workers EXCEPT ![k].j = @ + 1]
        /\ UNCHANGED <<pc, fill_pc>>
  /\ wild' = TRUE
  /\ UNCHANGED <<thread, waited, buffer, buffer0, writers>>
  /\ UNCHANGED <<ndebug, sdl_up, quit_calls, window, renderer, texture,
                 first_frame, quit, exit_status>>
  /\ UNCHANGED <<geomVars, kernelVars>>

\* the inner loop of task k ends: ++i
WorkerNextRow(k) ==
  /\ Running(k)
  /\ workers[k].i < workers[k].i_end
  /\ ~MoreColumns(workers[k].j)
  /\ workers' = [workers EXCEPT ![k].i = @ + 1, ![k].j = 0]
  /\ UNCHANGED <<fill_pc, thread, waited, buffer, buffer0, writers, wild>>
  /\ UNCHANGED <<mainVars, geomVars, kernelVars>>

\* the outer loop of task k ends: the future becomes ready
WorkerFinish(k) ==
  /\ Running(k)
  /\ workers[k].i >= workers[k].i_end
  /\ workers' = [workers EXCEPT ![k].status = "ready"]
  /\ UNCHANGED <<fill_pc, thread, waited, buffer, buffer0, writers, wild>>
  /\ UNCHANGED <<mainVars, geomVars, kernelVars>>

\* f throws in task k: std::async stores the exception in the shared state
WorkerThrow(k) ==
  /\ Running(k)
  /\ workers[k].i < workers[k].i_end
  /\ MoreColumns(workers[k].j)
  /\ <<workers[k].i, workers[k].j>> = throwAt
  /\ workers' = [workers EXCEPT ![k].status = "exception"]
  /\ UNCHANGED <<fill_pc, thread, waited, buffer, buffer0, writers, wild>>
  /\ UNCHANGED <<mainVars, geomVars, kernelVars>>

\* elem.wait() for the next future
Wait ==
  /\ fill_pc = "wait"
  /\ waited < nthreads
  /\ FutureReady(waited)
  /\ waited' = waited + 1
  /\ UNCHANGED <<fill_pc, thread, workers, buffer, buffer0, writers, wild>>
  /\ UNCHANGED <<mainVars, geomVars, kernelVars>>

\* the wait loop is over: generate_pixels returns; a stored exception is
\* never fetched (wait, not get) and is dropped with its future
Return ==
  /\ fill_pc = "wait"
  /\ waited = nthreads
  /\ fill_pc' = "returned"
  /\ UNCHANGED <<thread, waited, workers, buffer, buffer0, writers, wild>>
  /\ UNCHANGED <<mainVars, geomVars, kernelVars>>

Worker ==
  \E k \in Threads :
    \/ WorkerPixel(k)
    \/ WorkerNextRow(k)
    \/ WorkerFinish(k)

WildStore == \E k \in Threads : WorkerWildStore(k)

Throw == \E k \in Threads : WorkerThrow(k)

NextFill == Dispatch \/ Worker \/ WildStore \/ Wait \/ Return

KernelIdle ==
  /\ k_fn = "none" /\ k_pc = "idle" /\ k_v = <<0, 0>> /\ k_c = <<0, 0>>
  /\ k_i = 0 /\ k_result = <<>>

MainIdle ==
  /\ ndebug = FALSE /\ sdl_up = FALSE /\ quit_calls = 0
  /\ window = FALSE /\ renderer = FALSE /\ texture = FALSE
  /\ first_frame = TRUE /\ quit = FALSE /\ exit_status = -1

FillIdle ==
  /\ fill_pc = "idle" /\ thread = 0 /\ waited = 0
  /\ workers = <<>> /\ buffer = <<>> /\ buffer0 = <<>> /\ writers = <<>>
  /\ wild = FALSE

\* generate_pixels called directly with arbitrary arguments
InitFill ==
  /\ MainIdle /\ KernelIdle
  /\ pc = "caller"
  /\ width \in 0..MaxWidth
  /\ height \in 0..MaxHeight
  /\ \E pad \in (0 - MaxPad)..MaxPad :
       /\ channels * width + pad >= 0
       /\ pitch = channels * width + pad
  /\ buffer_null \in BOOLEAN
  /\ nthreads \in 1..MaxThreads
  /\ throwAt = NoThrow
  /\ fill_pc = "dispatch" /\ thread = 0 /\ waited = 0
  /\ workers = [k \in Threads |-> NoWorker]
  /\ buffer = FreshBuffer
  /\ buffer0 = FreshBuffer
  /\ writers = [o \in 0..(BufferSize - 1) |-> {}]
  /\ wild = FALSE

SpecFill == InitFill /\ [][NextFill]_vars

NextMany == Dispatch \/ Worker \/ Wait \/ Return

\* generate_pixels called directly with arguments that meet its contract and
\* with many tasks (more tasks than rows included)
InitMany ==
  /\ MainIdle /\ KernelIdle
  /\ pc = "caller"
  /\ width \in 1..MaxWidth
  /\ height \in 0..MaxHeight
  /\ \E pad \in 0..MaxPad : pitch = channels * width + pad
  /\ buffer_null = FALSE
  /\ nthreads \in 1..MaxManyThreads
  /\ throwAt = NoThrow
  /\ fill_pc = "dispatch" /\ thread = 0 /\ waited = 0
  /\ workers = [k \in Threads |-> NoWorker]
  /\ buffer = FreshBuffer
  /\ buffer0 = FreshBuffer
  /\ writers = [o \in 0..(BufferSize - 1) |-> {}]
  /\ wild = FALSE

SpecMany == InitMany /\ [][NextMany]_vars

NextFault == Dispatch \/ Worker \/ Throw \/ Wait \/ Return

\* generate_pixels called directly with a per-pixel function that may throw
InitFault ==
  /\ MainIdle /\ KernelIdle
  /\ pc = "caller"
  /\ width \in 1..MaxWidth
  /\ height \in 1..MaxHeight
  /\ pitch = channels * width
  /\ buffer_null = FALSE
  /\ nthreads = num_threads
  /\ throwAt \in {NoThrow} \cup ((0..(height - 1)) \X (0..(width - 1)))
  /\ fill_pc = "dispatch" /\ thread = 0 /\ waited = 0
  /\ workers = [k \in Threads |-> NoWorker]
  /\ buffer = FreshBuffer
  /\ buffer0 = FreshBuffer
  /\ writers = [o \in 0..(BufferSize - 1) |-> {}]
  /\ wild = FALSE

SpecFault == InitFault /\ [][NextFault]_vars

----------------------------------------------------------------------------
(***************************************************************************)
(* The colour kernels mandelbrot and julia, run on Gaussian integers: the  *)
(* iterates v*v + c are then exact in double arithmetic, and std::abs(v)   *)
(* compares with 2.0 as re*re + im*im compares with 4.                     *)
(***************************************************************************)

\* v * v + c for std::complex<double>
CStep(v, c) == <<v[1] * v[1] - v[2] * v[2] + c[1], 2 * v[1] * v[2] + c[2]>>

\* std::abs(v) < 2.0
AbsBelow2(v) == v[1] * v[1] + v[2] * v[2] < 4

\* std::abs(v) > 2.0
AbsAbove2(v) == v[1] * v[1] + v[2] * v[2] > 4

\* the loop condition i < 1000 && std::abs(v) < 2.0
KernelLoopTest == k_i < MaxIterations /\ AbsBelow2(k_v)

\* std::min(1.0, static_cast<double>(i) / 200) as a ratio
I_scaled(i) == IF i < ScaleIterations THEN <<i, ScaleIterations>> ELSE <<1, 1>>

\* variant: the colour test agrees with the loop test (|v| >= 2 is grey)
KernelColourAtLeast2(v, i) ==
  IF ~AbsBelow2(v)
    THEN Colour(I_scaled(i), I_scaled(i), I_scaled(i))
    ELSE Colour(<<0, 1>>, <<0, 1>>, <<0, 1>>)

\* the colour returned after the loop
KernelColour(v, i) ==
  IF AbsAbove2(v)
    THEN Colour(I_scaled(i), I_scaled(i), I_scaled(i))
    ELSE Colour(<<0, 1>>, <<0, 1>>, <<0, 1>>)

\* the loop body v = v * v + c; ++i
KernelStep ==
  /\ k_pc = "loop"
  /\ KernelLoopTest
  /\ k_v' = CStep(k_v, k_c)
  /\ k_i' = k_i + 1
  /\ UNCHANGED <<k_fn, k_pc, k_c, k_result>>
  /\ UNCHANGED <<mainVars, geomVars, fillVars>>

\* the loop is left and the colour is returned
KernelReturn ==
  /\ k_pc = "loop"
  /\ ~KernelLoopTest
  /\ k_result' = KernelColour(k_v, k_i)
  /\ k_pc' = "done"
  /\ UNCHANGED <<k_fn, k_v, k_c, k_i>>
  /\ UNCHANGED <<mainVars, geomVars, fillVars>>

NextKernel == KernelStep \/ KernelReturn

Grid == (0 - MaxCoord)..MaxCoord

\* mandelbrot(x, y) with x = x4/4, y = y4/4: c = (x*4 - 2, y*4 - 2), v = 0;
\* julia(v, c) with v and c given
InitKernel ==
  /\ MainIdle /\ FillIdle
  /\ pc = "caller"
  /\ width = 0 /\ height = 0 /\ pitch = 0 /\ buffer_null = TRUE
  /\ nthreads = num_threads /\ throwAt = NoThrow
  /\ k_fn \in {"mandelbrot", "julia"}
  /\ k_pc = "loop"
  /\ k_i = 0
  /\ k_result = <<>>
  /\ \/ /\ k_fn = "mandelbrot"
        /\ \E x4 \in 0..(2 * MaxCoord), y4 \in 0..(2 * MaxCoord) :
             k_c = <<x4 - 2, y4 - 2>>
        /\ k_v = <<0, 0>>
     \/ /\ k_fn = "julia"
        /\ k_v \in Grid \X Grid
        /\ k_c \in Grid \X Grid

SpecKernel == InitKernel /\ [][NextKernel]_vars

----------------------------------------------------------------------------
(***************************************************************************)
(* main.                                                                   *)
(***************************************************************************)

\* stack unwinding out of the try block: the unique_ptrs release what they own
Unwound == /\ window' = FALSE /\ renderer' = FALSE /\ texture' = FALSE

\* Initialise_sdl(SDL_INIT_VIDEO): the constructor of the temporary
InitialiseSdl ==
  /\ pc = "init_sdl"
  /\ \/ sdl_up' = TRUE /\ pc' = "guard_dtor"
     \/ sdl_up' = FALSE /\ pc' = "catch"
  /\ UNCHANGED <<ndebug, quit_calls, window, renderer, texture, first_frame,
                 quit, exit_status>>
  /\ UNCHANGED <<geomVars, fillVars, kernelVars>>

\* the temporary Initialise_sdl dies at the end of its full expression:
\* ~Initialise_sdl() calls SDL_Quit
GuardDestroyed ==
  /\ pc = "guard_dtor"
  /\ sdl_up' = FALSE
  /\ quit_calls' = quit_calls + 1
  /\ pc' = "create_window"
  /\ UNCHANGED <<ndebug, window, renderer, texture, first_frame, quit,
                 exit_status>>
  /\ UNCHANGED <<geomVars, fillVars, kernelVars>>

\* make_unique_ptr_sdl<SDL_Window>: a null result throws runtime_error
CreateWindow ==
  /\ pc = "create_window"
  /\ \/ window' = TRUE /\ pc' = "create_renderer"
        /\ UNCHANGED <<renderer, texture>>
     \/ Unwound /\ pc' = "catch"
  /\ UNCHANGED <<ndebug, sdl_up, quit_calls, first_frame, quit, exit_status>>
  /\ UNCHANGED <<geomVars, fillVars, kernelVars>>

\* make_unique_ptr_sdl<SDL_Renderer>, then clear and present
CreateRenderer ==
  /\ pc = "create_renderer"
  /\ \/ renderer' = TRUE /\ pc' = "create_texture"
        /\ UNCHANGED <<window, texture>>
     \/ Unwound /\ pc' = "catch"
  /\ UNCHANGED <<ndebug, sdl_up, quit_calls, first_frame, quit, exit_status>>
  /\ UNCHANGED <<geomVars, fillVars, kernelVars>>

\* make_unique_ptr_sdl<SDL_Texture>
CreateTexture ==
  /\ pc = "create_texture"
  /\ \/ texture' = TRUE /\ pc' = "lock"
        /\ UNCHANGED <<window, renderer>>
     \/ Unwound /\ pc' = "catch"
  /\ UNCHANGED <<ndebug, sdl_up, quit_calls, first_frame, quit, exit_status>>
  /\ UNCHANGED <<geomVars, fillVars, kernelVars>>

\* pixels = nullptr; pitch = 0; SDL_LockTexture(...): its result is ignored,
\* on failure pixels and pitch keep their values
LockTexture ==
  /\ pc = "lock"
  /\ \/ /\ buffer_null' = FALSE
        /\ \E pad \in 0..MaxPad : pitch' = channels * width + pad
     \/ /\ buffer_null' = TRUE
        /\ pitch' = 0
  /\ pc' = "assert"
  /\ UNCHANGED <<width, height, nthreads, throwAt>>
  /\ UNCHANGED <<ndebug, sdl_up, quit_calls, window, renderer, texture,
                 first_frame, quit, exit_status>>
  /\ UNCHANGED <<fillVars, kernelVars>>

\* assert(pitch == image_width * sizeof(uint32_t)) fails: abort()
AssertFails ==
  /\ pc = "assert"
  /\ ~ndebug
  /\ pitch # width * 4
  /\ pc' = "aborted"
  /\ UNCHANGED <<ndebug, sdl_up, quit_calls, window, renderer, texture,
                 first_frame, quit, exit_status>>
  /\ UNCHANGED <<geomVars, fillVars, kernelVars>>

\* the assert passes or is compiled out: generate_pixels is called
CallGeneratePixels ==
  /\ pc = "assert"
  /\ ndebug \/ pitch = width * 4
  /\ pc' = "fill"
  /\ EnterFill
  /\ UNCHANGED <<ndebug, sdl_up, quit_calls, window, renderer, texture,
                 first_frame, quit, exit_status>>
  /\ UNCHANGED <<geomVars, kernelVars>>

\* generate_pixels has returned: SDL_UnlockTexture, clear, copy, present
UnlockAndPresent ==
  /\ pc = "fill"
  /\ fill_pc = "returned"
  /\ fill_pc' = "idle"
  /\ first_frame' = FALSE
  /\ pc' = IF first_frame THEN "loop" ELSE "poll"
  /\ UNCHANGED <<thread, waited, workers, buffer, buffer0, writers, wild>>
  /\ UNCHANGED <<ndebug, sdl_up, quit_calls, window, renderer, texture,
                 quit, exit_status>>
  /\ UNCHANGED <<geomVars, kernelVars>>

\* while (SDL_PollEvent(&event)) if (event.type == SDL_QUIT) quit = true
PollEvents ==
  /\ pc = "poll"
  /\ quit' \in {quit, TRUE}
  /\ pc' = "loop"
  /\ UNCHANGED <<ndebug, sdl_up, quit_calls, window, renderer, texture,
                 first_frame, exit_status>>
  /\ UNCHANGED <<geomVars, fillVars, kernelVars>>

\* while (!quit)
LoopTest ==
  /\ pc = "loop"
  /\ pc' = IF quit THEN "end_try" ELSE "lock"
  /\ UNCHANGED <<ndebug, sdl_up, quit_calls, window, renderer, texture,
                 first_frame, quit, exit_status>>
  /\ UNCHANGED <<geomVars, fillVars, kernelVars>>

\* the try block ends: texture, renderer, window are destroyed; return 0
EndTry ==
  /\ pc = "end_try"
  /\ Unwound
  /\ exit_status' = 0
  /\ pc' = "exit"
  /\ UNCHANGED <<ndebug, sdl_up, quit_calls, first_frame, quit>>
  /\ UNCHANGED <<geomVars, fillVars, kernelVars>>

\* catch (const std::runtime_error &): print, SDL_Quit(), return 1
Catch ==
  /\ pc = "catch"
  /\ sdl_up' = FALSE
  /\ quit_calls' = quit_calls + 1
  /\ exit_status' = 1
  /\ pc' = "exit"
  /\ UNCHANGED <<ndebug, window, renderer, texture, first_frame, quit>>
  /\ UNCHANGED <<geomVars, fillVars, kernelVars>>

NextMain ==
  \/ InitialiseSdl \/ GuardDestroyed
  \/ CreateWindow \/ CreateRenderer \/ CreateTexture
  \/ LockTexture \/ AssertFails \/ CallGeneratePixels
  \/ UnlockAndPresent \/ PollEvents \/ LoopTest \/ EndTry \/ Catch

Init ==
  /\ KernelIdle /\ FillIdle
  /\ ndebug \in BOOLEAN
  /\ pc = "init_sdl"
  /\ sdl_up = FALSE /\ quit_calls = 0
  /\ window = FALSE /\ renderer = FALSE /\ texture = FALSE
  /\ first_frame = TRUE /\ quit = FALSE /\ exit_status = -1
  /\ width \in 1..MaxWidth
  /\ height \in 1..MaxHeight
  /\ pitch = 0
  /\ buffer_null = TRUE
  /\ nthreads = num_threads
  /\ throwAt = NoThrow

Next == NextMain \/ NextFill

Spec == Init /\ [][Next]_vars

----------------------------------------------------------------------------
(***************************************************************************)
(* Properties.                                                             *)
(***************************************************************************)

Rows == 0..(height - 1)
Columns == 0..(width - 1)

\* the arguments satisfy the contract of generate_pixels
ValidCall == ~buffer_null /\ pitch >= width * 4

AllDispatched == fill_pc \in {"wait", "returned"}

Writers(r, c, b) == writers[r * pitch + c * 4 + b]

Byte(r, c, b) == buffer[r * pitch + c * 4 + b]

\* C1: once all bands are dispatched every row index below height lies in
\* exactly one band [i_start, i_end), and every band lies within [0, height),
\* for every height >= 0 and every number of workers >= 1.
C1_BandsPartitionRows ==
  AllDispatched =>
    /\ \A r \in Rows :
         Cardinality({k \in Threads :
           workers[k].i_start <= r /\ r < workers[k].i_end}) = 1
    /\ \A k \in Threads :
         /\ 0 <= workers[k].i_start
         /\ workers[k].i_start <= workers[k].i_end
         /\ workers[k].i_end <= height

\* C1 witness: all bands dispatched for a height below the worker count
\* (so some band is empty and height is not divisible).
C1_Witness ==
  /\ fill_pc = "wait"
  /\ 0 < height /\ height < nthreads
  /\ \E k \in Threads : workers[k].i_start = workers[k].i_end

\* between a return of generate_pixels and the next call nothing is stored
QuietAfterReturn ==
  fill_pc \in {"returned", "idle"} =>
    \/ fill_pc' = "dispatch"
    \/ buffer' = buffer /\ writers' = writers /\ wild' = wild

\* C2: generate_pixels has returned only when every task has finished and
\* every pixel of the (valid) buffer has been written, and nothing is stored
\* to the buffer between the return and the next call.
C2_Synchronous ==
  /\ [](fill_pc = "returned" =>
          /\ \A k \in Threads : workers[k].status = "ready"
          /\ ~buffer_null =>
               \A r \in Rows, c \in Columns, b \in 0..3 :
                 Writers(r, c, b) # {})
  /\ [][QuietAfterReturn]_vars

\* C2 witness: main is back from generate_pixels with a locked buffer whose
\* rows were filled by three different tasks.
C2_Witness ==
  /\ pc = "fill" /\ fill_pc = "returned"
  /\ ~buffer_null
  /\ height >= nthreads
  /\ \A k \in Threads : \E r \in Rows : Writers(r, 0, 0) = {k}

\* C3: in a call with pitch >= width*4 no byte of the buffer is stored to by
\* two different tasks.
C3_NoSharedByte ==
  pitch >= width * 4 =>
    \A o \in DOMAIN writers : Cardinality(writers[o]) <= 1

\* C3 witness: a finished call with pitch >= width*4 in which two different
\* tasks have stored to the buffer.
C3_Witness ==
  /\ fill_pc = "returned"
  /\ pitch >= width * 4
  /\ \E o1, o2 \in DOMAIN writers :
       /\ writers[o1] # {} /\ writers[o2] # {}
       /\ writers[o1] # writers[o2]

\* C4: after the return of a valid call with a per-pixel function that
\* returns, the bytes at r*pitch + c*4 are 0xFF, blue, green, red of
\* f(c/width, r/height); for the gradient on a 2x2 image these are the
\* colours at (0,0), (0.5,0), (0,0.5), (0.5,0.5).
C4_PixelBytes ==
  (fill_pc = "returned" /\ ValidCall) =>
    /\ \A r \in Rows, c \in Columns :
         /\ Byte(r, c, 0) = 255
         /\ Byte(r, c, 1) = F(r, c).blue
         /\ Byte(r, c, 2) = F(r, c).green
         /\ Byte(r, c, 3) = F(r, c).red
    /\ (width = 2 /\ height = 2) =>
         /\ <<Byte(0, 0, 0), Byte(0, 0, 1), Byte(0, 0, 2), Byte(0, 0, 3)>>
              = <<255, 0, 0, 0>>
         /\ <<Byte(0, 1, 0), Byte(0, 1, 1), Byte(0, 1, 2), Byte(0, 1, 3)>>
              = <<255, 0, 0, 127>>
         /\ <<Byte(1, 0, 0), Byte(1, 0, 1), Byte(1, 0, 2), Byte(1, 0, 3)>>
              = <<255, 0, 127, 0>>
         /\ <<Byte(1, 1, 0), Byte(1, 1, 1), Byte(1, 1, 2), Byte(1, 1, 3)>>
              = <<255, 0, 127, 127>>

\* C4 witness: a valid call on a 2x2 image has returned.
C4_Witness ==
  /\ fill_pc = "returned" /\ ValidCall
  /\ width = 2 /\ height = 2

\* C5 (as claimed): when f has thrown in some task, generate_pixels does not
\* return normally.
C5_FaultPropagated ==
  (\E k \in Threads : workers[k].status = "exception") =>
    fill_pc # "returned"

PreconditionViolated ==
  buffer_null \/ width = 0 \/ height = 0 \/ pitch < width * 4

\* C6 (as claimed): in a call with a violated precondition no task is
\* dispatched, no byte is stored and the call does not return normally.
C6_FailFast ==
  PreconditionViolated =>
    /\ \A k \in Threads : workers[k].status = "none"
    /\ buffer = buffer0 /\ ~wild
    /\ fill_pc # "returned"

\* loops(0, height) run by a single task: pixel p of the row-major order
RECURSIVE SeqFill(_, _)
SeqFill(buf, p) ==
  IF p >= width * height
    THEN buf
    ELSE SeqFill(WritePixel(buf, p \div width, p % width), p + 1)

\* C7: after the return of a valid call the buffer is the buffer a single
\* sequential task produces, whatever the number of tasks and their
\* interleaving.
C7_SameAsSequential ==
  (fill_pc = "returned" /\ ValidCall) => buffer = SeqFill(buffer0, 0)

\* C7 witness: a valid call with several tasks and a height they do not
\* divide has returned with pixels written.
C7_Witness ==
  /\ fill_pc = "returned" /\ ValidCall
  /\ nthreads > 1 /\ height % nthreads # 0
  /\ width > 0 /\ buffer # buffer0

Black == [red |-> 0, green |-> 0, blue |-> 0]

Grey(i) ==
  LET level == (255 * (IF i < 200 THEN i ELSE 200)) \div 200
  IN [red |-> level, green |-> level, blue |-> level]

Norm2(v) == v[1] * v[1] + v[2] * v[2]

\* C8 (as claimed): a kernel stops after at most 1000 iterations, early only
\* with |v| >= 2; stopped with |v| >= 2 after i iterations it returns the
\* grey trunc(255 * min(1, i/200)); it returns black only when the 1000
\* iterations are used up with |v| < 2.
C8_KernelColourAsClaimed ==
  k_pc = "done" =>
    /\ k_i <= 1000
    /\ k_i < 1000 => Norm2(k_v) >= 4
    /\ Norm2(k_v) >= 4 => k_result = Grey(k_i)
    /\ k_result = Black => (k_i = 1000 /\ Norm2(k_v) < 4)

\* C8 (amended): a kernel stops after at most 1000 iterations, early only
\* with |v| >= 2; ended with |v| > 2 after i iterations it returns the grey
\* trunc(255 * min(1, i/200)), which is (0,0,0) for i = 0; ended with
\* |v| <= 2 (1000 iterations used up, or |v| exactly 2) it returns black.
\* mandelbrot of c = 0 is black after 1000 iterations, mandelbrot of a c
\* with |c| > 2 is the grey of level 1 after one iteration.
C8_KernelColour ==
  k_pc = "done" =>
    /\ k_i <= 1000
    /\ k_i < 1000 => Norm2(k_v) >= 4
    /\ Norm2(k_v) > 4 => k_result = Grey(k_i)
    /\ Norm2(k_v) <= 4 => k_result = Black
    /\ (k_fn = "mandelbrot" /\ k_c = <<0, 0>>) =>
         (k_i = 1000 /\ k_result = Black)
    /\ (k_fn = "mandelbrot" /\ Norm2(k_c) > 4) =>
         (k_i = 1 /\ k_result = [red |-> 1, green |-> 1, blue |-> 1])

\* C8 witness: mandelbrot has left the loop after one iteration with |v|
\* exactly 2 and has returned black.
C8_Witness ==
  /\ k_pc = "done" /\ k_fn = "mandelbrot"
  /\ k_i = 1 /\ Norm2(k_v) = 4
  /\ k_result = Black

\* C9 (as claimed): SDL is initialised whenever the window, the renderer or
\* the texture exists, and when main has returned SDL_Quit has been called
\* exactly once.
C9_GuardScoped ==
  /\ (window \/ renderer \/ texture) => sdl_up
  /\ pc = "exit" => (quit_calls = 1 /\ ~sdl_up)

\* C10: in a valid call every store goes to a byte of a pixel of the image
\* (offset r*pitch + c*4 + b with r < height, c < width, b < 4, inside the
\* buffer), and every byte of the row padding keeps its value.
C10_OnlyPixelBytes ==
  ValidCall =>
    /\ ~wild
    /\ \A o \in DOMAIN buffer :
         /\ writers[o] # {} =>
              \E r \in Rows, c \in Columns, b \in 0..3 :
                o = r * pitch + c * 4 + b
         /\ o % pitch >= width * 4 => buffer[o] = buffer0[o]
         /\ writers[o] = {} => buffer[o] = buffer0[o]

\* C10 witness: a valid call with padded rows has returned with every pixel
\* written.
C10_Witness ==
  /\ fill_pc = "returned" /\ ValidCall
  /\ pitch > width * 4 /\ width > 0 /\ height > 0
  /\ \A r \in Rows, c \in Columns : Writers(r, c, 0) # {}

====
